---- MODULE Spec2Model ----
(***************************************************************************)
(* Lead qualification backend: the rule engine (services/ruleEngine.ts),   *)
(* the intent classifier client (services/aiService.ts) and the scoring    *)
(* orchestrator (services/scoringService.ts), as one state machine.        *)
(*                                                                         *)
(* Strings are TLA+ strings; TLC evaluates Len, SubSeq and \o on them, so  *)
(* substring containment, trimming and lower-casing are computed character *)
(* by character, as String.prototype.includes/trim/toLowerCase do.         *)
(* Confidence values are kept in tenths (0.3 is 3, 0.5 is 5).              *)
(***************************************************************************)
EXTENDS Integers, Sequences, FiniteSets, TLC

(***************************************************************************)
(* String primitives.                                                      *)
(***************************************************************************)
UpperLetters == "ABCDEFGHIJKLMNOPQRSTUVWXYZ"
LowerLetters == "abcdefghijklmnopqrstuvwxyz"
Digits == "0123456789"

CharAt(s, n) == SubSeq(s, n, n)

\* String.prototype.substring(from) with a 0-based start.
SubstringFrom(s, from) == SubSeq(s, from + 1, Len(s))

LowerChar(c) ==
  LET ks == {k \in 1..Len(UpperLetters) : CharAt(UpperLetters, k) = c}
  IN  IF ks = {} THEN c ELSE CharAt(LowerLetters, CHOOSE k \in ks : TRUE)

\* Halving keeps the recursion depth logarithmic in the length.
RECURSIVE toLowerCase(_)
toLowerCase(s) ==
  IF Len(s) = 0 THEN ""
  ELSE IF Len(s) = 1 THEN LowerChar(s)
  ELSE toLowerCase(SubSeq(s, 1, Len(s) \div 2)) \o toLowerCase(SubstringFrom(s, Len(s) \div 2))

\* The characters the regular expression class \s and trim() treat as blank.
IsSpace(c) == c \in {" ", "\n", "\t", "\r"}

trim(s) ==
  LET solid == {n \in 1..Len(s) : ~IsSpace(CharAt(s, n))}
  IN  IF solid = {} THEN ""
      ELSE SubSeq(s, CHOOSE n \in solid : \A j \in solid : n <= j,
                     CHOOSE n \in solid : \A j \in solid : j <= n)

\* String.prototype.includes: the empty needle is included in every string.
includes(hay, needle) ==
  \E n \in 1..(Len(hay) - Len(needle) + 1) : SubSeq(hay, n, n + Len(needle) - 1) = needle

\* Array.prototype.some over a tuple.
some(arr, P(_)) == \E k \in 1..Len(arr) : P(arr[k])

(***************************************************************************)
(* Rule engine: classification tables.                                     *)
(***************************************************************************)
DECISION_MAKERS ==
  << "ceo", "chief executive officer", "president", "founder", "co-founder",
     "cto", "chief technology officer", "chief technical officer",
     "cfo", "chief financial officer", "chief finance officer",
     "cmo", "chief marketing officer", "chief marketing",
     "coo", "chief operating officer", "chief operations officer",
     "cpo", "chief product officer", "chief people officer",
     "ciso", "chief information security officer",
     "cdo", "chief data officer", "chief digital officer",
     "vp", "vice president", "svp", "senior vice president", "evp",
     "executive vice president",
     "director", "head of", "general manager", "gm",
     "owner", "partner", "managing director", "managing partner",
     "department head", "team lead", "team leader" >>

INFLUENCERS ==
  << "senior manager", "sr manager", "senior", "sr.",
     "principal", "lead", "senior lead", "staff",
     "senior engineer", "senior developer", "senior analyst",
     "senior consultant", "senior specialist",
     "manager", "supervisor", "coordinator", "administrator",
     "project manager", "program manager", "product manager",
     "account manager", "sales manager", "marketing manager",
     "architect", "consultant", "specialist", "expert",
     "analyst", "strategist", "advisor" >>

\* INDUSTRY_MAPPINGS in the order Object.entries enumerates it.
INDUSTRY_MAPPINGS ==
  << [category |-> "TECHNOLOGY", industries |->
       << "technology", "tech", "software", "saas", "it", "information technology",
          "computer software", "internet", "telecommunications", "fintech",
          "edtech", "healthtech", "proptech", "martech", "adtech",
          "artificial intelligence", "ai", "machine learning", "ml",
          "cybersecurity", "security", "cloud computing", "devops" >>],
     [category |-> "BUSINESS_SERVICES", industries |->
       << "consulting", "business services", "professional services",
          "management consulting", "strategy consulting", "advisory",
          "accounting", "legal", "law", "marketing", "advertising",
          "public relations", "pr", "human resources", "hr", "recruiting" >>],
     [category |-> "FINANCIAL", industries |->
       << "financial services", "banking", "finance", "investment",
          "insurance", "real estate", "venture capital", "vc",
          "private equity", "asset management", "wealth management" >>],
     [category |-> "HEALTHCARE", industries |->
       << "healthcare", "health", "medical", "pharmaceutical", "pharma",
          "biotechnology", "biotech", "life sciences", "hospital",
          "clinic", "medical device", "telemedicine" >>],
     [category |-> "ECOMMERCE", industries |->
       << "e-commerce", "ecommerce", "retail", "consumer goods",
          "marketplace", "online retail", "fashion", "apparel" >>],
     [category |-> "MANUFACTURING", industries |->
       << "manufacturing", "industrial", "automotive", "aerospace",
          "construction", "engineering", "logistics", "supply chain" >>],
     [category |-> "MEDIA", industries |->
       << "media", "entertainment", "publishing", "gaming",
          "streaming", "content", "digital media", "social media" >>],
     [category |-> "EDUCATION", industries |->
       << "education", "university", "school", "training",
          "e-learning", "online education", "academic" >>] >>

\* The value getIndustryCategory returns when no category matches (null).
NoCategory == "null"

(***************************************************************************)
(* Rule engine: evaluation.                                                *)
(***************************************************************************)
evaluateRoleRelevance(role) ==
  IF role = "" THEN 0
  ELSE LET normalizedRole == trim(toLowerCase(role))
           isDecisionMaker ==
             some(DECISION_MAKERS, LAMBDA dmRole : includes(normalizedRole, toLowerCase(dmRole)))
           isInfluencer ==
             some(INFLUENCERS, LAMBDA infRole : includes(normalizedRole, toLowerCase(infRole)))
       IN  IF isDecisionMaker THEN 20
           ELSE IF isInfluencer THEN 10
           ELSE 0

getIndustryCategory(industry) ==
  LET normalizedIndustry == toLowerCase(industry)
      matches(m) == some(m.industries, LAMBDA ind : includes(normalizedIndustry, toLowerCase(ind)))
      hits == {k \in 1..Len(INDUSTRY_MAPPINGS) : matches(INDUSTRY_MAPPINGS[k])}
  IN  IF hits = {} THEN NoCategory
      ELSE INDUSTRY_MAPPINGS[CHOOSE k \in hits : \A h \in hits : k <= h].category

evaluateIndustryMatch(industry, idealUseCases) ==
  IF industry = "" THEN 0
  ELSE IF Len(idealUseCases) = 0 THEN 0
  ELSE LET normalizedIndustry == trim(toLowerCase(industry))
           normalizedUseCases ==
             [k \in 1..Len(idealUseCases) |-> trim(toLowerCase(idealUseCases[k]))]
           hasExactMatch ==
             some(normalizedUseCases,
                  LAMBDA useCase : \/ includes(useCase, normalizedIndustry)
                                   \/ includes(normalizedIndustry, useCase))
           industryCategory == getIndustryCategory(normalizedIndustry)
           useCaseCategories ==
             {getIndustryCategory(normalizedUseCases[k]) : k \in 1..Len(normalizedUseCases)}
               \ {NoCategory}
           hasAdjacentMatch ==
             industryCategory # NoCategory /\ industryCategory \in useCaseCategories
       IN  IF hasExactMatch THEN 20
           ELSE IF hasAdjacentMatch THEN 10
           ELSE 0

requiredFields == <<"name", "role", "company", "industry", "location", "linkedin_bio">>

evaluateDataCompleteness(lead) ==
  LET emptyFields == {k \in 1..Len(requiredFields) : Len(trim(lead[requiredFields[k]])) = 0}
  IN  IF emptyFields # {} THEN 0 ELSE 10

\* A breakdown whose total leaves the completeness points out.
ruleBreakdownOfPartial(roleScore, industryScore, completenessScore) ==
  [role_score |-> roleScore,
   industry_score |-> industryScore,
   completeness_score |-> completenessScore,
   total_rule_score |-> roleScore + industryScore]

\* The RuleScoreBreakdown of three component scores.
ruleBreakdownOf(roleScore, industryScore, completenessScore) ==
  [role_score |-> roleScore,
   industry_score |-> industryScore,
   completeness_score |-> completenessScore,
   total_rule_score |-> roleScore + industryScore + completenessScore]

\* Values a caller can pass where an object is expected (`null as any`).
JsNull == [jsType |-> "null"]
JsUndefined == [jsType |-> "undefined"]
JsNumber == [jsType |-> "number"]
JsString == [jsType |-> "string"]
NonObjects == {JsNull, JsUndefined, JsNumber, JsString}

\* Reading a property of v throws a TypeError.
isNullish(v) == v \in {JsNull, JsUndefined}

\* v is an object; a property read on a number or a string gives undefined.
isObject(v) == "jsType" \notin DOMAIN v

\* The breakdown the catch block of calculateRuleScore returns.
zeroBreakdown == ruleBreakdownOf(0, 0, 0)

\* lead.name and offer.ideal_use_cases throw on null and undefined, and the
\* catch block answers with zeros; on another non-object they read undefined,
\* which each evaluation turns into 0 at its first guard.
calculateRuleScore(lead, offer) ==
  IF isNullish(lead) \/ isNullish(offer) THEN zeroBreakdown
  ELSE ruleBreakdownOf(
         IF isObject(lead) THEN evaluateRoleRelevance(lead.role) ELSE 0,
         IF isObject(lead) /\ isObject(offer)
           THEN evaluateIndustryMatch(lead.industry, offer.ideal_use_cases) ELSE 0,
         IF isObject(lead) THEN evaluateDataCompleteness(lead) ELSE 0)

(***************************************************************************)
(* Intent classifier client: response parsing (AIService.parseAIResponse). *)
(* The regular expressions are computed on texts over letters, digits,     *)
(* punctuation, blanks, tabs and "\n" (no "\r" or Unicode separators).     *)
(***************************************************************************)
AI_SCORE_MAPPING == [High |-> 50, Medium |-> 30, Low |-> 10]

validIntents == <<"High", "Medium", "Low">>

Max(a, b) == IF a >= b THEN a ELSE b
Min(a, b) == IF a <= b THEN a ELSE b

\* The class \w of the regular expressions.
IsWordChar(c) ==
  \E k \in 1..Len(LowerLetters \o Digits \o "_") :
     CharAt(LowerLetters \o Digits \o "_", k) = LowerChar(c)

\* Case-insensitive match of the literal w in s at index p (1-based).
MatchesAt(s, p, w) ==
  /\ p >= 1
  /\ p + Len(w) - 1 <= Len(s)
  /\ toLowerCase(SubSeq(s, p, p + Len(w) - 1)) = w

\* The index after the longest run of \s starting at index p.
SkipSpaces(s, p) ==
  CHOOSE q \in p..(Len(s) + 1) :
    /\ \A n \in p..(q - 1) : IsSpace(CharAt(s, n))
    /\ (q = Len(s) + 1 \/ ~IsSpace(CharAt(s, q)))

Least(S) == CHOOSE m \in S : \A n \in S : m <= n

\* The value of a failed String.prototype.match (null), and of an unset intent.
NoMatch == [found |-> FALSE, text |-> ""]

\* response.match(/Intent:\s*(High|Medium|Low)/i): group 1 of the leftmost match.
intentMatch(s) ==
  LET word(p) == {k \in 1..3 : MatchesAt(s, SkipSpaces(s, p + 7), toLowerCase(validIntents[k]))}
      hits == {p \in 1..Len(s) : MatchesAt(s, p, "intent:") /\ word(p) # {}}
  IN  IF hits = {} THEN NoMatch
      ELSE LET p == Least(hits)
               q == SkipSpaces(s, p + 7)
               w == validIntents[Least(word(p))]
           IN  [found |-> TRUE, text |-> SubSeq(s, q, q + Len(w) - 1)]

\* /\b(w1|w2|...)\b/i.test(s), every alternative beginning and ending in \w.
testWords(s, words) ==
  \E k \in 1..Len(words) : \E p \in 1..Len(s) :
     /\ MatchesAt(s, p, words[k])
     /\ (p = 1 \/ ~IsWordChar(CharAt(s, p - 1)))
     /\ (p + Len(words[k]) > Len(s) \/ ~IsWordChar(CharAt(s, p + Len(words[k]))))

\* response.match(/Reasoning:\s*(.+?)(?:\n|$)/i): group 1 of the leftmost match.
reasoningMatch(s) ==
  LET hits == {p \in 1..Len(s) : MatchesAt(s, p, "reasoning:") /\ SkipSpaces(s, p + 10) <= Len(s)}
  IN  IF hits = {} THEN NoMatch
      ELSE LET q == SkipSpaces(s, Least(hits) + 10)
               ends == {e \in q..Len(s) : CharAt(s, e) = "\n"} \cup {Len(s) + 1}
           IN  [found |-> TRUE, text |-> SubSeq(s, q, Least(ends) - 1)]

\* response.split(/[.!?]+/).filter(s => s.trim().length > 10), last element.
IsSentenceEnd(c) == c \in {".", "!", "?"}

lastSentence(s) ==
  LET starts == {b \in 1..Len(s) :
                   /\ ~IsSentenceEnd(CharAt(s, b))
                   /\ (b = 1 \/ IsSentenceEnd(CharAt(s, b - 1)))}
      endOf(b) == Least({e \in b..Len(s) : e = Len(s) \/ IsSentenceEnd(CharAt(s, e + 1))})
      piece(b) == SubSeq(s, b, endOf(b))
      long == {b \in starts : Len(trim(piece(b))) > 10}
  IN  IF long = {} THEN NoMatch
      ELSE [found |-> TRUE, text |-> piece(CHOOSE b \in long : \A c \in long : c <= b)]

\* Step 1 of parseAIResponse: the captured intent word im, else the first
\* keyword family found in the text, else none (intent stays null).
parsedIntent(normalizedResponse, im) ==
  IF im.found THEN im
  ELSE IF testWords(normalizedResponse, <<"high", "strong", "excellent", "very likely">>)
    THEN [found |-> TRUE, text |-> "High"]
  ELSE IF testWords(normalizedResponse, <<"medium", "moderate", "some", "possible">>)
    THEN [found |-> TRUE, text |-> "Medium"]
  ELSE IF testWords(normalizedResponse, <<"low", "weak", "poor", "unlikely">>)
    THEN [found |-> TRUE, text |-> "Low"]
  ELSE NoMatch

\* Step 2 of parseAIResponse: the captured reasoning rm, else the last long
\* sentence ls, else the first 200 characters of the text.
parsedReasoning(normalizedResponse, rm, ls) ==
  LET reasoning1 == IF rm.found /\ rm.text # "" THEN trim(rm.text) ELSE ""
      reasoning2 == IF reasoning1 # "" THEN reasoning1
                    ELSE IF ls.found THEN trim(ls.text) ELSE ""
  IN  IF reasoning2 # "" THEN reasoning2
      ELSE trim(SubSeq(normalizedResponse, 1, Min(Len(normalizedResponse), 200)))

\* Step 3 of parseAIResponse: validation and the returned record.
parsedResult(normalizedResponse, intent, reasoning) ==
  LET isValidIntent == intent.found /\ some(validIntents, LAMBDA valid : valid = intent.text)
      hasReasoning == Len(reasoning) > 0
  IN  [intent |-> IF intent.found /\ intent.text # "" THEN intent.text ELSE "Low",
       reasoning |-> IF reasoning # "" THEN reasoning
                     ELSE "AI analysis could not be parsed properly",
       success |-> isValidIntent /\ hasReasoning,
       rawResponse |-> normalizedResponse]

parseAIResponse(response) ==
  parsedResult(trim(response),
               parsedIntent(trim(response), intentMatch(trim(response))),
               parsedReasoning(trim(response), reasoningMatch(trim(response)),
                               lastSentence(trim(response))))

highConfidenceWords ==
  << "clearly", "definitely", "obviously", "certainly", "strong", "excellent",
     "perfect", "ideal", "exactly", "precisely" >>

lowConfidenceWords ==
  << "might", "maybe", "possibly", "unclear", "limited", "insufficient",
     "uncertain", "difficult", "hard to determine" >>

\* In tenths: the base 0.5 is 5, every keyword present moves it by one tenth.
estimateConfidence(response) ==
  LET normalizedResponse == toLowerCase(response)
      up == Cardinality({k \in 1..Len(highConfidenceWords) :
                           includes(normalizedResponse, highConfidenceWords[k])})
      down == Cardinality({k \in 1..Len(lowConfidenceWords) :
                             includes(normalizedResponse, lowConfidenceWords[k])})
  IN  Max(0, Min(10, 5 + up - down))

decisionMakerKeywords == <<"ceo", "cto", "vp", "director", "head", "chief", "founder">>

getFallbackAnalysis(lead, offer) ==
  LET isDecisionMaker ==
        some(decisionMakerKeywords, LAMBDA keyword : includes(toLowerCase(lead.role), keyword))
      hasIndustryMatch ==
        some(offer.ideal_use_cases,
             LAMBDA useCase : \/ includes(toLowerCase(useCase), toLowerCase(lead.industry))
                              \/ includes(toLowerCase(lead.industry), toLowerCase(useCase)))
      intent == IF isDecisionMaker /\ hasIndustryMatch THEN "High"
                ELSE IF isDecisionMaker \/ hasIndustryMatch THEN "Medium"
                ELSE "Low"
      reasoning ==
        IF isDecisionMaker /\ hasIndustryMatch
          THEN "Decision maker role with relevant industry match."
        ELSE IF isDecisionMaker \/ hasIndustryMatch
          THEN "Either decision maker role or industry relevance detected."
        ELSE "AI service unavailable, using basic heuristics."
  IN  [intent |-> intent,
       reasoning |-> reasoning,
       score |-> AI_SCORE_MAPPING[intent],
       confidence |-> 3]

\* analyzeIntent once the response is parsed: the fallback when the parse
\* did not succeed, else the IntentAnalysis of the parsed fields.
analysisOf(lead, offer, parsedResponse) ==
  IF ~parsedResponse.success THEN getFallbackAnalysis(lead, offer)
  ELSE [intent |-> parsedResponse.intent,
        reasoning |-> parsedResponse.reasoning,
        score |-> AI_SCORE_MAPPING[parsedResponse.intent],
        confidence |-> estimateConfidence(parsedResponse.rawResponse)]

\* analyzeIntent after callAIWithRetry has returned the text aiResponse.
analyzeResponse(lead, offer, aiResponse) ==
  analysisOf(lead, offer, parseAIResponse(aiResponse))

(***************************************************************************)
(* Configuration and errors.                                               *)
(***************************************************************************)
\* AIServiceConfig.maxRetries as createAIService sets it: the attempts one
\* analyzeIntent call may make.
maxRetries == 3

\* DEFAULT_SCORING_CONFIG.aiTimeout, in milliseconds.
aiTimeout == 30000

\* The error callAIWithRetry throws once every attempt has failed.
ExternalServiceError ==
  [name |-> "ExternalServiceError",
   message |-> "AI service failed after " \o ToString(maxRetries) \o " attempts"]

\* The error performAIAnalysis' timer rejects with.
AnalysisTimeoutError ==
  [name |-> "Error",
   message |-> "AI analysis timeout after " \o ToString(aiTimeout) \o "ms"]

(***************************************************************************)
(* Inputs of the model.                                                    *)
(***************************************************************************)
MaxLeads == 2
MaxBatchSize == 2

sampleOffer ==
  [name |-> "AI Outreach Automation",
   value_props |-> <<"24/7 outreach", "6x more meetings">>,
   ideal_use_cases |-> <<"B2B SaaS mid-market", "Technology companies">>]

Offers == {sampleOffer}

\* A second offer, to replace the stored one with.
retailOffer ==
  [name |-> "Retail Analytics Suite",
   value_props |-> <<"Real-time shelf insights">>,
   ideal_use_cases |-> <<"Retail chains">>]

StoredOffers == {sampleOffer, retailOffer}

Prospects ==
  { [name |-> "John Doe", role |-> "CEO", company |-> "Tech Corp",
     industry |-> "Technology", location |-> "San Francisco, CA",
     linkedin_bio |-> "Experienced technology executive with 15 years in SaaS."],
    [name |-> "Jane Smith", role |-> "Marketing Manager", company |-> "Retail Inc",
     industry |-> "Retail", location |-> "New York, NY",
     linkedin_bio |-> "Marketing professional focused on customer acquisition."],
    [name |-> "Low Score Lead", role |-> "Intern", company |-> "Unrelated Corp",
     industry |-> "Agriculture", location |-> "Rural Area",
     linkedin_bio |-> "Recent graduate"],
    [name |-> "Blank Lead", role |-> "Intern", company |-> "Unrelated Corp",
     industry |-> "Agriculture", location |-> "   ",
     linkedin_bio |-> "Recent graduate"] }

LeadLists == UNION {[1..n -> Prospects] : n \in 0..MaxLeads}

\* Texts the remote model may answer with; the blank ones count as failures.
Responses ==
  { "Intent: High\nReasoning: strong fit",
    "Intent: Medium\nReasoning: Manager role with some decision influence in relevant industry.",
    "Intent: Low\nReasoning: Individual contributor with limited decision authority.",
    "This is a completely unstructured response without intent classification.",
    "  \n" }

\* ruleEngine.calculateRuleScore and the parsing half of analyzeIntent, computed
\* once for every input of the model and looked up afterwards.
ruleScoreTable ==
  {[lead |-> l, offer |-> o, value |-> calculateRuleScore(l, o)] :
     l \in Prospects \cup {JsNull}, o \in StoredOffers \cup {JsNull}}

ruleScores(lead, off) ==
  (CHOOSE e \in ruleScoreTable : e.lead = lead /\ e.offer = off).value

analysisTable ==
  {[lead |-> l, offer |-> o, text |-> t, value |-> analyzeResponse(l, o, t)] :
     l \in Prospects, o \in StoredOffers, t \in Responses}

analyses(lead, off, text) ==
  (CHOOSE e \in analysisTable : e.lead = lead /\ e.offer = off /\ e.text = text).value

(***************************************************************************)
(* Scoring orchestrator: pure parts of ScoringService.                     *)
(***************************************************************************)
\* A mapping that gives every intent the lowest score.
getAIScoreForIntentFlat(intent) == [High |-> 10, Medium |-> 10, Low |-> 10][intent]

getAIScoreForIntent(intent) == [High |-> 50, Medium |-> 30, Low |-> 10][intent]

\* getFallbackAIAnalysis once calculateRuleScore has returned ruleScore.
fallbackByRuleScore(ruleScore) ==
  LET intent == IF ruleScore.total_rule_score >= 40 THEN "High"
                ELSE IF ruleScore.total_rule_score >= 20 THEN "Medium"
                ELSE "Low"
      reasoning ==
        IF ruleScore.total_rule_score >= 40
          THEN "Strong rule-based indicators suggest high buying intent."
        ELSE IF ruleScore.total_rule_score >= 20
          THEN "Moderate rule-based indicators suggest medium buying intent."
        ELSE "Limited rule-based indicators suggest low buying intent."
  IN  [intent |-> intent,
       reasoning |-> reasoning,
       score |-> getAIScoreForIntent(intent),
       confidence |-> 3]

getFallbackAIAnalysis(lead, offer) == fallbackByRuleScore(ruleScores(lead, offer))

\* A reconciliation whose upper threshold is exclusive.
determineFinalIntentExclusive(ruleBreakdown, aiAnalysis) ==
  IF aiAnalysis.intent = "High" /\ ruleBreakdown.total_rule_score < 10 THEN "Medium"
  ELSE IF aiAnalysis.intent = "Low" /\ ruleBreakdown.total_rule_score > 40 THEN "Medium"
  ELSE aiAnalysis.intent

determineFinalIntent(ruleBreakdown, aiAnalysis) ==
  LET aiIntent == aiAnalysis.intent
      ruleScore == ruleBreakdown.total_rule_score
  IN  IF aiIntent = "High" /\ ruleScore < 10 THEN "Medium"
      ELSE IF aiIntent = "Low" /\ ruleScore >= 40 THEN "Medium"
      ELSE aiIntent

\* Array.prototype.join(", ").
RECURSIVE join(_)
join(parts) ==
  IF Len(parts) = 0 THEN ""
  ELSE IF Len(parts) = 1 THEN parts[1]
  ELSE parts[1] \o ", " \o join(Tail(parts))

generateCombinedReasoning(ruleBreakdown, aiAnalysis, lead) ==
  LET rolePart == IF ruleBreakdown.role_score > 0
                    THEN << (IF ruleBreakdown.role_score = 20
                               THEN "decision maker" ELSE "influencer") \o " role" >>
                    ELSE << >>
      industryPart == IF ruleBreakdown.industry_score > 0
                        THEN << (IF ruleBreakdown.industry_score = 20
                                   THEN "excellent" ELSE "good") \o " industry fit" >>
                        ELSE << >>
      completenessPart == IF ruleBreakdown.completeness_score > 0
                            THEN << "complete profile data" >> ELSE << >>
      ruleParts == rolePart \o industryPart \o completenessPart
  IN  (IF Len(ruleParts) > 0 THEN "Rule-based factors: " \o join(ruleParts) \o ". " ELSE "")
        \o "AI analysis: " \o aiAnalysis.reasoning

\* A combination that adds the score of the reconciled label, not the analysis's own.
combineScoresByLabel(lead, ruleBreakdown, aiAnalysis) ==
  [intent |-> determineFinalIntent(ruleBreakdown, aiAnalysis),
   score |-> ruleBreakdown.total_rule_score
               + getAIScoreForIntent(determineFinalIntent(ruleBreakdown, aiAnalysis)),
   reasoning |-> generateCombinedReasoning(ruleBreakdown, aiAnalysis, lead),
   rule_breakdown |-> ruleBreakdown,
   ai_analysis |-> aiAnalysis] @@ lead

\* Step 3 of scoreLead: the ScoredLead built from the lead, the breakdown of
\* step 1 and the analysis of step 2.
combineScores(lead, ruleBreakdown, aiAnalysis) ==
  [intent |-> determineFinalIntent(ruleBreakdown, aiAnalysis),
   score |-> ruleBreakdown.total_rule_score + aiAnalysis.score,
   reasoning |-> generateCombinedReasoning(ruleBreakdown, aiAnalysis, lead),
   rule_breakdown |-> ruleBreakdown,
   ai_analysis |-> aiAnalysis] @@ lead

createErrorScoredLead(lead, error) ==
  [intent |-> "Low",
   score |-> 0,
   reasoning |-> "Scoring failed: " \o error.message,
   rule_breakdown |-> [role_score |-> 0, industry_score |-> 0,
                       completeness_score |-> 0, total_rule_score |-> 0],
   ai_analysis |-> [intent |-> "Low", reasoning |-> "AI analysis failed",
                    score |-> 0, confidence |-> 0]] @@ lead

\* The time fields are startTime/endTime reduced to "endTime is set";
\* avgProcessingTimeMs, a wall-clock average, is left out.
initializeStats ==
  [totalLeads |-> 0,
   successfulScores |-> 0,
   failedScores |-> 0,
   aiSuccesses |-> 0,
   aiFailures |-> 0,
   scoreDistribution |-> [high |-> 0, medium |-> 0, low |-> 0],
   endTime |-> FALSE]

updateStats(st, scoredLead, success) ==
  IF success
    THEN LET intent == CHOOSE low \in {toLowerCase(v) : v \in {scoredLead.intent}} : TRUE
         IN  [st EXCEPT !.successfulScores = @ + 1,
                        !.scoreDistribution[intent] = @ + 1]
    ELSE [st EXCEPT !.failedScores = @ + 1]

(***************************************************************************)
(* Promises: a promise is pending, fulfilled with a value or rejected with *)
(* an error; "idle" stands for a promise that was not created yet.         *)
(***************************************************************************)
Idle == [state |-> "idle", value |-> << >>, error |-> << >>]
Pending == [state |-> "pending", value |-> << >>, error |-> << >>]
Fulfilled(v) == [state |-> "fulfilled", value |-> << v >>, error |-> << >>]
Rejected(e) == [state |-> "rejected", value |-> << >>, error |-> << e >>]

\* utils/errors.withErrorHandling: logs the error and throws it again.
withErrorHandling(outcome) == outcome

\* A gathering that hands the values over in the order the promises settled.
PromiseAllAsSettled(ps, keys, order) ==
  IF \E n \in 1..Len(order) : ps[order[n]].state = "rejected"
    THEN Rejected(ps[order[Least({n \in 1..Len(order) :
                                   ps[order[n]].state = "rejected"})]].error[1])
  ELSE IF \A n \in 1..Len(keys) : ps[keys[n]].state = "fulfilled"
    THEN Fulfilled([n \in 1..Len(keys) |-> ps[order[n]].value[1]])
  ELSE Pending

\* Promise.all over the promises ps[k], k in the ascending tuple keys: rejected
\* as soon as one is rejected (order lists the keys in settlement order),
\* fulfilled with the values in the order of keys once all are fulfilled.
PromiseAll(ps, keys, order) ==
  LET rejected == {n \in 1..Len(order) : ps[order[n]].state = "rejected"}
  IN  IF rejected # {} THEN Rejected(ps[order[Least(rejected)]].error[1])
      ELSE IF \A n \in 1..Len(keys) : ps[keys[n]].state = "fulfilled"
        THEN Fulfilled([n \in 1..Len(keys) |-> ps[keys[n]].value[1]])
      ELSE Pending

(***************************************************************************)
(* State.                                                                  *)
(***************************************************************************)
VARIABLES
  config,        \* ScoringService.config: useAI, continueOnAIFailure, batchSize
  stats,         \* ScoringService.stats
  pc,            \* scoreLeads: "idle", "running" (awaiting a batch), "pause", "done"
  call,          \* the arguments of the scoreLeads call: << >> or <<[leads, offer]>>
  i,             \* scoreLeads: the loop variable i
  results,       \* scoreLeads: results
  errors,        \* scoreLeads: errors
  scoring,       \* lead index -> the promise of this.scoreLead(lead, offer)
  batchPromises, \* lead index -> the promise of the batch.map callback
  calls,         \* lead index -> the analyzeIntent call: pc, attempt
  settleOrder,   \* lead indexes in the order their scoreLead promises settled
  returned,      \* the promise scoreLeads returned
  input,         \* the arguments of a direct call of a pure method: << >> or <<args>>
  output,        \* what that call returned: << >> or <<value>>
  store,         \* the DataStore singleton: offer, leads, scoredResults
  scoreRequest,  \* the POST /score request: its state and the offer it read
  limiter        \* the rateLimit middleware of POST /score, the clock and what passed

vars == << config, stats, pc, call, i, results, errors, scoring, batchPromises,
           calls, settleOrder, returned, input, output, store, scoreRequest, limiter >>

leads == call[1].leads
offer == call[1].offer

NoCall == [pc |-> "none", attempt |-> 0]

\* A freshly constructed DataStore; offer is << >> for null.
emptyStore == [offer |-> << >>, leads |-> << >>, scoredResults |-> << >>]

\* No POST /score was received yet. Otherwise state is "running" (awaiting
\* scoreLeads) or "done", offer and leads the locals the handler read.
NoScoreRequest == [state |-> "none", offer |-> << >>, leads |-> << >>, status |-> 0, code |-> ""]

\* rateLimit(5, 10 * 60 * 1000) as the POST /score route creates it: the
\* requests map is empty. now is Date.now() in milliseconds, passed[c] the
\* times at which a request of client c reached the scoring handler, last
\* the answer to the latest request (<< >> before the first).
newLimiter ==
  [requests |-> << >>, now |-> 0, passed |-> [c \in {"10.0.0.1", "10.0.0.2"} |-> << >>],
   last |-> << >>]

Configs == [useAI : BOOLEAN, continueOnAIFailure : BOOLEAN, batchSize : 1..MaxBatchSize]

\* A freshly constructed ScoringService on which no scoring run was started.
ServiceIdle ==
  /\ config \in Configs
  /\ stats = initializeStats
  /\ pc = "idle"
  /\ call = << >>
  /\ i = 0
  /\ results = << >>
  /\ errors = << >>
  /\ scoring = << >>
  /\ batchPromises = << >>
  /\ calls = << >>
  /\ settleOrder = << >>
  /\ returned = Idle
  /\ store = emptyStore
  /\ scoreRequest = NoScoreRequest
  /\ limiter = newLimiter

Init ==
  /\ ServiceIdle
  /\ input = << >>
  /\ output = << >>

(***************************************************************************)
(* scoreLead and the batch callback.                                       *)
(***************************************************************************)
\* A step 2 that falls back on the rules whatever continueOnAIFailure says.
aiAnalysisStepLenient(lead, off, cfg, race) ==
  IF cfg.useAI /\ race.state = "fulfilled" THEN race
  ELSE Fulfilled(getFallbackAIAnalysis(lead, off))

\* Step 2 of scoreLead: race is the settled promise of performAIAnalysis
\* (not looked at when useAI is off). The classifier's analysis when it came,
\* the rejection in strict mode, the rule-based fallback otherwise.
aiAnalysisStep(lead, off, cfg, race) ==
  IF cfg.useAI /\ race.state = "fulfilled" THEN race
  ELSE IF cfg.useAI /\ ~cfg.continueOnAIFailure THEN race
  ELSE Fulfilled(getFallbackAIAnalysis(lead, off))

\* scoreLead from step 3 on, ai being the outcome of step 2.
scoreLeadFrom(lead, ruleBreakdown, ai) ==
  IF ai.state = "fulfilled"
    THEN Fulfilled(combineScores(lead, ruleBreakdown, ai.value[1]))
    ELSE ai

\* What reading a property of null or undefined throws.
TypeError ==
  [name |-> "TypeError", message |-> "Cannot read properties of null (reading 'name')"]

\* The promise scoreLead returns, once performAIAnalysis has settled as race.
\* The first statement reads lead.name and lead.company for the log line,
\* outside any try block of scoreLead.
scoreLead(lead, off, cfg, race) ==
  withErrorHandling(IF isNullish(lead) THEN Rejected(TypeError)
                    ELSE scoreLeadFrom(lead, ruleScores(lead, off),
                                       aiAnalysisStep(lead, off, cfg, race)))

\* Counters that book every classifier call as a success.
scoreLeadStatsAllSuccess(st, cfg, race, outcome) ==
  IF outcome.state = "fulfilled"
    THEN updateStats(IF cfg.useAI THEN [st EXCEPT !.aiSuccesses = @ + 1] ELSE st,
                     outcome.value[1], TRUE)
    ELSE IF cfg.useAI THEN [st EXCEPT !.aiSuccesses = @ + 1] ELSE st

\* Counters that book the fallback of a disabled classifier as an AI failure.
scoreLeadStatsIgnoringUseAI(st, cfg, race, outcome) ==
  IF outcome.state = "fulfilled"
    THEN updateStats(IF race.state = "fulfilled" THEN [st EXCEPT !.aiSuccesses = @ + 1]
                     ELSE [st EXCEPT !.aiFailures = @ + 1],
                     outcome.value[1], TRUE)
    ELSE [st EXCEPT !.aiFailures = @ + 1]

\* The counters scoreLead moves: aiSuccesses/aiFailures, then updateStats.
scoreLeadStats(st, cfg, race, outcome) ==
  LET s1 == IF ~cfg.useAI THEN st
            ELSE IF race.state = "fulfilled" THEN [st EXCEPT !.aiSuccesses = @ + 1]
            ELSE [st EXCEPT !.aiFailures = @ + 1]
  IN  IF outcome.state = "fulfilled" THEN updateStats(s1, outcome.value[1], TRUE) ELSE s1

\* A callback without the catch: the rejection of scoreLead goes through.
batchCallbackRethrow(lead, outcome) == outcome

\* The batch.map callback: a rejected scoreLead becomes a placeholder result.
batchCallback(lead, outcome) ==
  IF outcome.state = "rejected"
    THEN Fulfilled(createErrorScoredLead(lead, outcome.error[1]))
    ELSE outcome

\* leads.slice(start, start + size).
batchSlice(ls, start, size) == SubSeq(ls, start + 1, Min(start + size, Len(ls)))

\* The lead indexes of the batch that starts at offset start, in order.
batchKeys(ls, start) ==
  [n \in 1..Len(batchSlice(ls, start, config.batchSize)) |-> start + n]

\* The run's arguments and mutable parts, threaded through the steps of one action.
Run == [leads |-> leads, offer |-> offer, stats |-> stats, errors |-> errors,
        scoring |-> scoring, batchPromises |-> batchPromises, settleOrder |-> settleOrder]

\* The run after lead k's scoreLead has settled as outcome.
settled(R, k, race, outcome) ==
  [R EXCEPT
     !.stats = scoreLeadStats(R.stats, config, race, outcome),
     !.errors = IF outcome.state = "rejected"
                  THEN Append(R.errors, [lead |-> R.leads[k], error |-> outcome.error[1]])
                  ELSE R.errors,
     !.scoring[k] = outcome,
     !.batchPromises[k] = batchCallback(R.leads[k], outcome),
     !.settleOrder = Append(R.settleOrder, k)]

\* Lead k's scoreLead settles, performAIAnalysis having settled as race.
leadSettles(R, k, race) ==
  settled(R, k, race, scoreLead(R.leads[k], R.offer, config, race))

\* With useAI off every scoreLead of the batch runs to its end in turn.
RECURSIVE settleInTurn(_, _)
settleInTurn(R, keys) ==
  IF Len(keys) = 0 THEN R
  ELSE settleInTurn(leadSettles(R, Head(keys), Idle), Tail(keys))

\* The settlement order of the current batch alone.
batchOrder(order, start) == SelectSeq(order, LAMBDA k : k > start)

\* A loop that pauses after every batch, the last one included.
resumePausingAfterLast(R, start) ==
  \E S \in {R} :
    \E all \in {PromiseAll(S.batchPromises, batchKeys(S.leads, start),
                           batchOrder(S.settleOrder, start))} :
      LET more == start + config.batchSize <= Len(S.leads)
      IN  /\ stats' = IF all.state = "fulfilled" /\ ~more
                        THEN [S.stats EXCEPT !.endTime = TRUE] ELSE S.stats
          /\ errors' = S.errors
          /\ scoring' = S.scoring
          /\ batchPromises' = S.batchPromises
          /\ settleOrder' = S.settleOrder
          /\ results' = IF all.state = "fulfilled" THEN results \o all.value[1] ELSE results
          /\ pc' = IF all.state = "pending" THEN "running"
                   ELSE IF all.state = "fulfilled" /\ more THEN "pause"
                   ELSE "done"
          /\ i' = IF all.state = "fulfilled" /\ ~more THEN start + config.batchSize ELSE start
          /\ returned' = IF all.state = "rejected" THEN withErrorHandling(all)
                         ELSE IF all.state = "fulfilled" /\ ~more
                           THEN withErrorHandling(Fulfilled(results \o all.value[1]))
                         ELSE Pending

\* scoreLeads resumes after `await Promise.all(batchPromises)` when the batch
\* has settled: push the results, then pause, finish or reject. (S and all
\* are the run and the gathered promise, evaluated once.)
resume(R, start) ==
  \E S \in {R} :
    \E all \in {PromiseAll(S.batchPromises, batchKeys(S.leads, start),
                           batchOrder(S.settleOrder, start))} :
      LET more == start + config.batchSize < Len(S.leads)
      IN  /\ stats' = IF all.state = "fulfilled" /\ ~more
                        THEN [S.stats EXCEPT !.endTime = TRUE] ELSE S.stats
          /\ errors' = S.errors
          /\ scoring' = S.scoring
          /\ batchPromises' = S.batchPromises
          /\ settleOrder' = S.settleOrder
          /\ results' = IF all.state = "fulfilled" THEN results \o all.value[1] ELSE results
          /\ pc' = IF all.state = "pending" THEN "running"
                   ELSE IF all.state = "fulfilled" /\ more THEN "pause"
                   ELSE "done"
          /\ i' = IF all.state = "fulfilled" /\ ~more THEN start + config.batchSize ELSE start
          /\ returned' = IF all.state = "rejected" THEN withErrorHandling(all)
                         ELSE IF all.state = "fulfilled" /\ ~more
                           THEN withErrorHandling(Fulfilled(results \o all.value[1]))
                         ELSE Pending

\* The loop body of scoreLeads up to its await, for the batch at offset start;
\* cs are the analyzeIntent calls so far.
startBatch(R, cs, start) ==
  LET keys == batchKeys(R.leads, start)
      inBatch(k) == \E n \in 1..Len(keys) : keys[n] = k
      R1 == [R EXCEPT !.scoring = [k \in 1..Len(R.leads) |->
                                     IF inBatch(k) THEN Pending ELSE R.scoring[k]],
                      !.batchPromises = [k \in 1..Len(R.leads) |->
                                     IF inBatch(k) THEN Pending ELSE R.batchPromises[k]]]
  IN  IF config.useAI
        THEN /\ calls' = [k \in 1..Len(R.leads) |->
                            IF inBatch(k)
                              THEN [pc |-> "request", attempt |-> 1]
                              ELSE cs[k]]
             /\ resume(R1, start)
        ELSE /\ calls' = cs
             /\ resume(settleInTurn(R1, keys), start)

(***************************************************************************)
(* Actions.                                                                *)
(***************************************************************************)
\* scoreLeads(ls, o) is called: statistics reset, first batch started. With
\* no lead the loop body never runs and the call returns the empty list.
scoreLeads(ls, o) ==
  /\ pc = "idle"
  /\ call' = << [leads |-> ls, offer |-> o] >>
  /\ UNCHANGED << config, limiter, input, output, store, scoreRequest >>
  /\ LET R0 == [leads |-> ls, offer |-> o,
                stats |-> [initializeStats EXCEPT !.totalLeads = Len(ls)],
                errors |-> << >>,
                scoring |-> [k \in 1..Len(ls) |-> Idle],
                batchPromises |-> [k \in 1..Len(ls) |-> Idle],
                settleOrder |-> << >>]
         cs0 == [k \in 1..Len(ls) |-> NoCall]
     IN  IF Len(ls) = 0
           THEN /\ stats' = [R0.stats EXCEPT !.endTime = TRUE]
                /\ pc' = "done"
                /\ returned' = withErrorHandling(Fulfilled(<< >>))
                /\ calls' = cs0
                /\ UNCHANGED << i, results, errors, scoring, batchPromises, settleOrder >>
           ELSE startBatch(R0, cs0, 0)

\* The 100 ms pause between two batches is over: the next batch starts.
batchDelayElapsed ==
  /\ pc = "pause"
  /\ UNCHANGED << config, limiter, call, input, output, store, scoreRequest >>
  /\ startBatch(Run, calls, i + config.batchSize)

\* analyzeIntent's call k settles as out: the race of performAIAnalysis is
\* decided by it unless the timer has decided it before.
callSettles(k, out) ==
  IF scoring[k].state = "pending"
    THEN resume(leadSettles(Run, k, out), i)
    ELSE UNCHANGED << stats, pc, i, results, errors, scoring, batchPromises,
                      settleOrder, returned >>

\* One failed attempt of callAIWithRetry: back off, or give up after the last.
attemptFailed(k) ==
  IF calls[k].attempt = maxRetries
    THEN /\ calls' = [calls EXCEPT ![k].pc = "rejected"]
         /\ callSettles(k, withErrorHandling(Rejected(ExternalServiceError)))
    ELSE /\ calls' = [calls EXCEPT ![k].pc = "backoff"]
         /\ UNCHANGED << stats, pc, i, results, errors, scoring, batchPromises,
                         settleOrder, returned >>

\* The remote model answers request k with text.
generateContentResolves(k, text) ==
  /\ pc \in {"running", "pause", "done"}
  /\ k \in DOMAIN calls
  /\ calls[k].pc = "request"
  /\ UNCHANGED << config, limiter, call, input, output, store, scoreRequest >>
  /\ IF Len(trim(text)) = 0
       THEN attemptFailed(k)
       ELSE LET out == withErrorHandling(Fulfilled(analyses(leads[k], offer, text)))
            IN  /\ calls' = [calls EXCEPT ![k].pc = "resolved"]
                /\ callSettles(k, out)

\* Request k fails: the transport rejects, or the client's own timer wins.
generateContentFails(k) ==
  /\ pc \in {"running", "pause", "done"}
  /\ k \in DOMAIN calls
  /\ calls[k].pc = "request"
  /\ UNCHANGED << config, limiter, call, input, output, store, scoreRequest >>
  /\ attemptFailed(k)

\* The backoff delay of call k is over: the next attempt is sent.
retryDelayElapsed(k) ==
  /\ pc \in {"running", "pause", "done"}
  /\ k \in DOMAIN calls
  /\ calls[k].pc = "backoff"
  /\ calls' = [calls EXCEPT ![k].pc = "request", ![k].attempt = @ + 1]
  /\ UNCHANGED << config, limiter, call, stats, pc, i, results, errors, scoring, batchPromises,
                  settleOrder, returned, input, output, store, scoreRequest >>

\* A performAIAnalysis without its timer.
aiTimeoutNeverFires(k) ==
  /\ FALSE
  /\ UNCHANGED vars

\* The aiTimeout timer of performAIAnalysis fires before analyzeIntent settled:
\* scoreLead goes on with the timeout error, the call itself keeps running.
aiTimeoutFires(k) ==
  /\ pc = "running"
  /\ k \in DOMAIN scoring
  /\ scoring[k].state = "pending"
  /\ config.useAI
  /\ UNCHANGED << config, limiter, call, calls, input, output, store, scoreRequest >>
  /\ resume(leadSettles(Run, k, Rejected(AnalysisTimeoutError)), i)

Next ==
  \/ \E ls \in LeadLists, o \in Offers : scoreLeads(ls, o)
  \/ batchDelayElapsed
  \/ \E k \in 1..MaxLeads, text \in Responses : generateContentResolves(k, text)
  \/ \E k \in 1..MaxLeads : generateContentFails(k)
  \/ \E k \in 1..MaxLeads : retryDelayElapsed(k)
  \/ \E k \in 1..MaxLeads : aiTimeoutFires(k)

Spec == Init /\ [][Next]_vars

\* The runs followed for termination: two of the prospects and two of the
\* answers (a verdict and a blank text), the same steps.
FairNext ==
  \/ \E ls \in UNION {[1..n -> {p \in Prospects : p.name \in {"John Doe", "Low Score Lead"}}] :
                         n \in 0..MaxLeads},
         o \in Offers : scoreLeads(ls, o)
  \/ batchDelayElapsed
  \/ \E k \in 1..MaxLeads, text \in {"Intent: High\nReasoning: strong fit", "  \n"} :
       generateContentResolves(k, text)
  \/ \E k \in 1..MaxLeads : generateContentFails(k)
  \/ \E k \in 1..MaxLeads : retryDelayElapsed(k)
  \/ \E k \in 1..MaxLeads : aiTimeoutFires(k)

\* The run under the guarantees of the event loop: a timer that was set
\* fires. The 100 ms pause of scoreLeads and the aiTimeout timer of every
\* performAIAnalysis are such timers; nothing is assumed of the remote model,
\* which may never answer.
FairSpec ==
  /\ Init
  /\ [][FairNext]_vars
  /\ WF_vars(batchDelayElapsed)
  /\ \A k \in 1..MaxLeads : WF_vars(aiTimeoutFires(k))

(***************************************************************************)
(* determineFinalIntent called on its own, for every AI intent and every   *)
(* total rule score up to MaxRuleScore.                                    *)
(***************************************************************************)
MaxRuleScore == 50

ReconcileInputs == [aiIntent : {"High", "Medium", "Low"}, ruleScore : 0..MaxRuleScore]

ReconcileInit ==
  /\ ServiceIdle
  /\ input \in {<< a >> : a \in ReconcileInputs}
  /\ output = << >>

\* this.determineFinalIntent(ruleBreakdown, aiAnalysis) on the drawn arguments.
applyDetermineFinalIntent ==
  /\ input # << >>
  /\ output = << >>
  /\ output' = << determineFinalIntent(
                     [role_score |-> 0, industry_score |-> 0, completeness_score |-> 0,
                      total_rule_score |-> input[1].ruleScore],
                     [intent |-> input[1].aiIntent, reasoning |-> "",
                      score |-> getAIScoreForIntent(input[1].aiIntent), confidence |-> 5]) >>
  /\ UNCHANGED << config, limiter, stats, pc, call, i, results, errors, scoring, batchPromises,
                  calls, settleOrder, returned, input, store, scoreRequest >>

ReconcileNext == applyDetermineFinalIntent

ReconcileSpec == ReconcileInit /\ [][ReconcileNext]_vars

(***************************************************************************)
(* analyzeIntent called on its own: the remote model's behaviour on the    *)
(* successive attempts of one call is drawn beforehand as a tuple of       *)
(* maxRetries outcomes.                                                    *)
(***************************************************************************)
\* AIServiceConfig.retryDelay as createAIService sets it, in milliseconds.
retryDelay == 1000

\* What one generateContent request may do: answer with a text (possibly
\* empty or blank), reject, or lose the race against the request timer.
RemoteOutcomes ==
  {[kind |-> "text", text |-> t] : t \in Responses \cup {""}}
    \cup {[kind |-> "error", text |-> ""], [kind |-> "timeout", text |-> ""]}

RemoteBehaviours == [1..maxRetries -> RemoteOutcomes]

\* The try block of callAIWithRetry returns the text of this outcome.
attemptSucceeds(outcome) == outcome.kind = "text" /\ Len(trim(outcome.text)) # 0

\* A delay that doubles once too often.
backoffDelayDoubled(attempt) == retryDelay * 2 ^ attempt

\* this.config.retryDelay * Math.pow(2, attempt - 1).
backoffDelay(attempt) == retryDelay * 2 ^ (attempt - 1)

\* A loop that takes any non-empty text, blank or not, for an answer.
RECURSIVE retryFromAnyText(_, _, _)
retryFromAnyText(outcomes, attempt, waited) ==
  IF outcomes[attempt].kind = "text" /\ outcomes[attempt].text # ""
    THEN [result |-> Fulfilled(outcomes[attempt].text), attempts |-> attempt, delays |-> waited]
  ELSE IF attempt = maxRetries
    THEN [result |-> Rejected(ExternalServiceError), attempts |-> attempt, delays |-> waited]
  ELSE retryFromAnyText(outcomes, attempt + 1, Append(waited, backoffDelay(attempt)))

\* The loop of callAIWithRetry from the given attempt on; waited lists the
\* delays slept so far. The result tells how many requests were made.
RECURSIVE retryFrom(_, _, _)
retryFrom(outcomes, attempt, waited) ==
  IF attemptSucceeds(outcomes[attempt])
    THEN [result |-> Fulfilled(outcomes[attempt].text), attempts |-> attempt, delays |-> waited]
  ELSE IF attempt = maxRetries
    THEN [result |-> Rejected(ExternalServiceError), attempts |-> attempt, delays |-> waited]
  ELSE retryFrom(outcomes, attempt + 1, Append(waited, backoffDelay(attempt)))

callAIWithRetry(outcomes) == retryFrom(outcomes, 1, << >>)

\* An analyzeIntent that throws when the response cannot be parsed.
analyzeIntentFrom_Throwing(lead, off, retried) ==
  IF retried.result.state = "fulfilled"
       /\ analyses(lead, off, retried.result.value[1]).confidence # 3
    THEN [retried EXCEPT !.result = Fulfilled(analyses(lead, off, retried.result.value[1]))]
    ELSE [retried EXCEPT !.result = Rejected(ExternalServiceError)]

\* analyzeIntent once callAIWithRetry has settled as retried.
analyzeIntentFrom(lead, off, retried) ==
  IF retried.result.state = "fulfilled"
    THEN [retried EXCEPT
            !.result = withErrorHandling(Fulfilled(analyses(lead, off, retried.result.value[1])))]
    ELSE [retried EXCEPT !.result = withErrorHandling(retried.result)]

analyzeIntent(lead, off, outcomes) == analyzeIntentFrom(lead, off, callAIWithRetry(outcomes))

ClientInputs == [lead : Prospects, offer : Offers, outcomes : RemoteBehaviours]

ClientInit ==
  /\ ServiceIdle
  /\ input \in {<< a >> : a \in ClientInputs}
  /\ output = << >>

\* aiService.analyzeIntent(lead, offer) against the drawn remote behaviour.
applyAnalyzeIntent ==
  /\ input # << >>
  /\ output = << >>
  /\ output' = << analyzeIntent(input[1].lead, input[1].offer, input[1].outcomes) >>
  /\ UNCHANGED << config, limiter, stats, pc, call, i, results, errors, scoring, batchPromises,
                  calls, settleOrder, returned, input, store, scoreRequest >>

ClientNext == applyAnalyzeIntent

ClientSpec == ClientInit /\ [][ClientNext]_vars

(***************************************************************************)
(* ruleEngine.calculateRuleScore called on its own, on prospects of every  *)
(* role and industry below, with and without a location, and on values     *)
(* that are no objects.                                                    *)
(***************************************************************************)
RuleRoles ==
  {"CEO", "VP of Sales", "Senior Manager", "Software Engineer", "Marketing Coordinator",
   "Sales Representative", "Junior Developer", "Intern"}

RuleIndustries == {"Technology", "Retail", "Farming"}

RuleProspects ==
  [name : {"Alice Brown"}, role : RuleRoles, company : {"Consulting Firm"},
   industry : RuleIndustries, location : {"Chicago, IL", ""},
   linkedin_bio : {"Senior manager with expertise in business transformation."}]

RuleInputs == [lead : RuleProspects \cup NonObjects, offer : Offers \cup NonObjects]

\* calculateRuleScore on every input of this specification, computed once.
ruleInputScores == [a \in RuleInputs |-> calculateRuleScore(a.lead, a.offer)]

RuleInit ==
  /\ ServiceIdle
  /\ input \in {<< a >> : a \in RuleInputs}
  /\ output = << >>

\* ruleEngine.calculateRuleScore(lead, offer) on the drawn arguments.
applyCalculateRuleScore ==
  /\ input # << >>
  /\ output = << >>
  /\ output' = << ruleInputScores[input[1]] >>
  /\ UNCHANGED << config, limiter, stats, pc, call, i, results, errors, scoring, batchPromises,
                  calls, settleOrder, returned, input, store, scoreRequest >>

RuleNext == applyCalculateRuleScore

RuleSpec == RuleInit /\ [][RuleNext]_vars

(***************************************************************************)
(* The HTTP handlers around the DataStore: POST /offer, POST /leads/upload,*)
(* POST /score and GET /results. Timestamps (created_at, uploaded_at,      *)
(* scored_at) are left out.                                                *)
(***************************************************************************)
\* The leads uploaded in this specification.
StoreProspects == {p \in Prospects : p.name \in {"John Doe", "Low Score Lead"}}

\* validLeads is never empty when the upload handler stores it.
StoreLeadLists == UNION {[1..n -> StoreProspects] : n \in 1..MaxLeads}

\* The configuration the POST /score handler builds its ScoringService with.
handlerConfig == [useAI |-> TRUE, continueOnAIFailure |-> TRUE, batchSize |-> 5]

\* How performAIAnalysis ends for one lead of the run: the classifier answers
\* with a structured verdict, or the call fails.
raceOutcome(lead, off, answered) ==
  IF answered
    THEN Fulfilled(analyses(lead, off, "Intent: High\nReasoning: strong fit"))
    ELSE Rejected(ExternalServiceError)

\* What scoringService.scoreLeads(ls, off) resolves with, answered[n] telling
\* how the classifier call of lead n ended.
scoredLeadsOf(ls, off, answered) ==
  [n \in 1..Len(ls) |->
     batchCallback(ls[n], scoreLead(ls[n], off, handlerConfig,
                                    raceOutcome(ls[n], off, answered[n]))).value[1]]

\* DataStore.setOffer: the offer is replaced, nothing else is touched.
setOffer(st, offerPayload) == [st EXCEPT !.offer = << offerPayload >>]

\* DataStore.setLeads: the leads are replaced and the scored results cleared.
setLeads(st, leadsData) == [st EXCEPT !.leads = leadsData, !.scoredResults = << >>]

\* DataStore.setScoredResults: throws, storing nothing, when there are more
\* results than leads.
setScoredResults(st, scored) ==
  IF Len(scored) > Len(st.leads) THEN st ELSE [st EXCEPT !.scoredResults = scored]

getScoredResults(st) == st.scoredResults

\* The value of one decimal digit.
digitValue(c) == (CHOOSE n \in 1..10 : CharAt(Digits, n) = c) - 1

isDigit(c) == \E n \in 1..10 : CharAt(Digits, n) = c

\* The number of leading decimal digits of s.
RECURSIVE digitPrefix(_)
digitPrefix(s) ==
  IF Len(s) = 0 \/ ~isDigit(CharAt(s, 1)) THEN 0 ELSE 1 + digitPrefix(SubstringFrom(s, 1))

RECURSIVE digitsValue(_, _)
digitsValue(s, acc) ==
  IF Len(s) = 0 THEN acc
  ELSE digitsValue(SubstringFrom(s, 1), 10 * acc + digitValue(CharAt(s, 1)))

\* parseInt on a query parameter: the leading digits, NaN when there is none.
parseInt(s) ==
  IF digitPrefix(s) = 0 THEN [isNaN |-> TRUE, value |-> 0]
  ELSE [isNaN |-> FALSE, value |-> digitsValue(SubSeq(s, 1, digitPrefix(s)), 0)]

\* Array.prototype.filter.
filter(arr, P(_)) == SelectSeq(arr, P)

\* filteredResults.sort((a, b) => b.score - a.score): stable, highest first.
insertByScore(sorted, lead) ==
  SelectSeq(sorted, LAMBDA x : x.score >= lead.score)
    \o << lead >> \o SelectSeq(sorted, LAMBDA x : x.score < lead.score)

RECURSIVE sortByScore(_)
sortByScore(arr) ==
  IF Len(arr) = 0 THEN << >>
  ELSE insertByScore(sortByScore(SubSeq(arr, 1, Len(arr) - 1)), arr[Len(arr)])

\* The four filtering steps of getResults, in the order the handler takes them.
byIntent(arr, q) ==
  IF q.intent # "" /\ q.intent \in {"High", "Medium", "Low"}
    THEN filter(arr, LAMBDA lead : lead.intent = q.intent) ELSE arr

byMinScore(arr, q) ==
  IF q.min_score # "" /\ ~parseInt(q.min_score).isNaN
    THEN filter(arr, LAMBDA lead : lead.score >= parseInt(q.min_score).value) ELSE arr

byMaxScore(arr, q) ==
  IF q.max_score # "" /\ ~parseInt(q.max_score).isNaN
    THEN filter(arr, LAMBDA lead : lead.score <= parseInt(q.max_score).value) ELSE arr

byLimit(arr, q) ==
  IF q.limit # "" /\ ~parseInt(q.limit).isNaN /\ parseInt(q.limit).value > 0
    THEN SubSeq(arr, 1, Min(parseInt(q.limit).value, Len(arr))) ELSE arr

\* The leads GET /results (and GET /results/export) answers with.
resultsData(scored, q) ==
  IF Len(scored) = 0 THEN << >>
  ELSE sortByScore(byLimit(byMaxScore(byMinScore(byIntent(scored, q), q), q), q))

\* req.query: an absent parameter is the empty string.
Queries ==
  [intent : {"", "High", "Urgent"}, min_score : {"", "50"}, max_score : {"", "60"},
   limit : {"", "1", "many"}]

StoreInit ==
  /\ ServiceIdle
  /\ config = [useAI |-> TRUE, continueOnAIFailure |-> TRUE, batchSize |-> MaxBatchSize]
  /\ input = << >>
  /\ output = << >>

\* POST /offer with a valid payload.
postOffer(o) ==
  /\ output = << >>
  /\ store' = setOffer(store, o)
  /\ UNCHANGED << config, limiter, stats, pc, call, i, results, errors, scoring, batchPromises,
                  calls, settleOrder, returned, input, output, scoreRequest >>

\* POST /leads/upload with a file holding the valid leads ls.
uploadLeads(ls) ==
  /\ output = << >>
  /\ store' = setLeads(store, ls)
  /\ UNCHANGED << config, limiter, stats, pc, call, i, results, errors, scoring, batchPromises,
                  calls, settleOrder, returned, input, output, scoreRequest >>

\* A prerequisite check that looks at the leads before the offer.
scorePrerequisiteLeadsFirst(st) ==
  IF Len(st.leads) = 0 THEN "NO_LEADS_DATA"
  ELSE IF st.offer = << >> THEN "NO_OFFER_DATA"
  ELSE ""

\* The prerequisite validation of the POST /score handler: the error code it
\* answers with, "" when offer and leads are there.
scorePrerequisite(st) ==
  IF st.offer = << >> THEN "NO_OFFER_DATA"
  ELSE IF Len(st.leads) = 0 THEN "NO_LEADS_DATA"
  ELSE ""

\* HttpStatus.UNPROCESSABLE_ENTITY.
UNPROCESSABLE_ENTITY == 422

\* POST /score failing its prerequisite validation: the handler answers 422
\* with the error code and returns before a ScoringService is created.
scoreRequestRejected ==
  /\ output = << >>
  /\ scoreRequest.state # "running"
  /\ scorePrerequisite(store) # ""
  /\ scoreRequest' = [state |-> "rejected", offer |-> << >>, leads |-> << >>,
                      status |-> UNPROCESSABLE_ENTITY, code |-> scorePrerequisite(store)]
  /\ UNCHANGED << config, limiter, stats, pc, call, i, results, errors, scoring, batchPromises,
                  calls, settleOrder, returned, input, output, store >>

\* POST /score up to its await: offer and leads are read from the store.
\* (One request at a time.)
scoreRequestStarts ==
  /\ output = << >>
  /\ scoreRequest.state # "running"
  /\ scorePrerequisite(store) = ""
  /\ scoreRequest' = [state |-> "running", offer |-> store.offer, leads |-> store.leads,
                      status |-> 0, code |-> ""]
  /\ UNCHANGED << config, limiter, stats, pc, call, i, results, errors, scoring, batchPromises,
                  calls, settleOrder, returned, input, output, store >>

\* POST /score after its await: the scored leads are stored and the handler
\* answers 200, or 500 when setScoredResults throws.
scoreRequestFinishes(answered) ==
  /\ output = << >>
  /\ scoreRequest.state = "running"
  /\ DOMAIN answered = DOMAIN scoreRequest.leads
  /\ store' = setScoredResults(store, scoredLeadsOf(scoreRequest.leads,
                                                     scoreRequest.offer[1], answered))
  /\ scoreRequest' = [scoreRequest EXCEPT
                        !.state = "done", !.leads = << >>,
                        !.status = IF Len(scoreRequest.leads) > Len(store.leads) THEN 500 ELSE 200]
  /\ UNCHANGED << config, limiter, stats, pc, call, i, results, errors, scoring, batchPromises,
                  calls, settleOrder, returned, input, output >>

\* GET /results?... : the query and the leads of the response are kept. The
\* request changes nothing in the store, so a behaviour is followed up to its
\* first GET.
getResults(q) ==
  /\ output = << >>
  /\ input' = << q >>
  /\ output' = << resultsData(getScoredResults(store), q) >>
  /\ UNCHANGED << config, limiter, stats, pc, call, i, results, errors, scoring, batchPromises,
                  calls, settleOrder, returned, store, scoreRequest >>

StoreNext ==
  \/ \E o \in StoredOffers : postOffer(o)
  \/ \E ls \in StoreLeadLists : uploadLeads(ls)
  \/ scoreRequestRejected
  \/ scoreRequestStarts
  \/ \E answered \in UNION {[1..n -> BOOLEAN] : n \in 1..MaxLeads} : scoreRequestFinishes(answered)
  \/ \E q \in Queries : getResults(q)

StoreSpec == StoreInit /\ [][StoreNext]_vars

(***************************************************************************)
(* scoreLead called on its own, as the unit tests call it: the classifier  *)
(* is a mock that resolves with a fixed analysis or rejects, and the       *)
(* arguments may be null.                                                  *)
(***************************************************************************)
\* What the mocked analyzeIntent settles with (confidence in tenths).
MockOutcomes ==
  { Fulfilled([intent |-> "Low", reasoning |-> "Invalid data", score |-> 10, confidence |-> 1]),
    Fulfilled([intent |-> "Medium", reasoning |-> "Manager role", score |-> 30, confidence |-> 6]),
    Fulfilled([intent |-> "High", reasoning |-> "AI thinks this is high", score |-> 50,
               confidence |-> 8]),
    Rejected([name |-> "Error", message |-> "AI failed"]) }

ScoreLeadInputs ==
  [lead : Prospects \cup {JsNull}, offer : Offers \cup {JsNull},
   config : Configs, race : MockOutcomes]

ScoreLeadInit ==
  /\ ServiceIdle
  /\ input \in {<< a >> : a \in ScoreLeadInputs}
  /\ config = input[1].config
  /\ output = << >>

\* scoringService.scoreLead(lead, offer) on the drawn arguments.
applyScoreLead ==
  /\ input # << >>
  /\ output = << >>
  /\ output' = << scoreLead(input[1].lead, input[1].offer, config, input[1].race) >>
  /\ UNCHANGED << config, limiter, stats, pc, call, i, results, errors, scoring, batchPromises,
                  calls, settleOrder, returned, input, store, scoreRequest >>

ScoreLeadNext == applyScoreLead

ScoreLeadSpec == ScoreLeadInit /\ [][ScoreLeadNext]_vars

(***************************************************************************)
(* The rate limiter in front of POST /score. The requests map is a         *)
(* function from client ids to records; time is in milliseconds.           *)
(***************************************************************************)
\* rateLimit(5, 10 * 60 * 1000).
maxRequests == 5
windowMs == 10 * 60 * 1000

\* HttpStatus.TOO_MANY_REQUESTS.
TOO_MANY_REQUESTS == 429

\* req.ip of the clients.
Clients == {"10.0.0.1", "10.0.0.2"}

\* Requests arrive at multiples of six minutes, up to MaxClockSteps of them.
MaxClockSteps == 2
ClockStep == 6 * 60 * 1000

\* The clean-up loop: entries whose window has expired are deleted.
cleanUp(requests, now) ==
  [key \in {c \in DOMAIN requests : ~(now > requests[c].resetTime)} |-> requests[key]]

\* "Get or create client record" on the cleaned map.
withClientRecord(requests, clientId, now) ==
  IF clientId \notin DOMAIN requests \/ now > requests[clientId].resetTime
    THEN (clientId :> [count |-> 0, resetTime |-> now + windowMs]) @@ requests
    ELSE requests

\* The middleware on a request of clientId at time now: the map afterwards,
\* the status it answered with (0 when it did not answer) and whether it
\* called next().
rateLimit(requests, clientId, now) ==
  IF withClientRecord(cleanUp(requests, now), clientId, now)[clientId].count >= maxRequests
    THEN [requests |-> withClientRecord(cleanUp(requests, now), clientId, now),
          status |-> TOO_MANY_REQUESTS,
          next |-> FALSE]
    ELSE [requests |-> [withClientRecord(cleanUp(requests, now), clientId, now)
                          EXCEPT ![clientId].count = @ + 1],
          status |-> 0,
          next |-> TRUE]

LimiterInit ==
  /\ ServiceIdle
  /\ config = [useAI |-> TRUE, continueOnAIFailure |-> TRUE, batchSize |-> MaxBatchSize]
  /\ input = << >>
  /\ output = << >>

\* Date.now() moves on.
clockAdvances ==
  /\ limiter.now + ClockStep <= MaxClockSteps * ClockStep
  /\ limiter' = [limiter EXCEPT !.now = @ + ClockStep]
  /\ UNCHANGED << config, stats, pc, call, i, results, errors, scoring, batchPromises,
                  calls, settleOrder, returned, input, output, store, scoreRequest >>

\* POST /score from client c goes through the middleware; when next() is
\* called the request reaches the scoring handler, which is followed in
\* StoreSpec.
limitedPostScore(c) ==
  /\ limiter' =
       [limiter EXCEPT
          !.requests = rateLimit(limiter.requests, c, limiter.now).requests,
          !.passed[c] = IF rateLimit(limiter.requests, c, limiter.now).next
                          THEN Append(@, limiter.now)
                          ELSE @,
          !.last = << [clientId |-> c,
                       status |-> rateLimit(limiter.requests, c, limiter.now).status] >>]
  /\ UNCHANGED << config, stats, pc, call, i, results, errors, scoring, batchPromises,
                  calls, settleOrder, returned, input, output, store, scoreRequest >>

LimiterNext ==
  \/ clockAdvances
  \/ \E c \in Clients : limitedPostScore(c)

LimiterSpec == LimiterInit /\ [][LimiterNext]_vars

(***************************************************************************)
(* Properties of the scoring run (Spec) and of the reconciliation          *)
(* (ReconcileSpec).                                                        *)
(***************************************************************************)
\* What scoreLeads puts at a position whose scoreLead settled as p.
resultFor(lead, p) ==
  IF p.state = "fulfilled" THEN p.value[1] ELSE createErrorScoredLead(lead, p.error[1])

\* The leads whose scoreLead promise has settled.
settledLeads == {k \in DOMAIN scoring : scoring[k].state \in {"fulfilled", "rejected"}}

\* Every ScoredLead the run has produced so far: pushed results and the values
\* of the scoreLead promises.
producedLeads ==
  {results[n] : n \in DOMAIN results}
    \cup {scoring[k].value[1] : k \in {m \in DOMAIN scoring : scoring[m].state = "fulfilled"}}

\* C1: scoreLeads on N prospects resolves with exactly N results, and result n
\* is the scoring of input prospect n (it carries that prospect's fields and is
\* what that prospect's scoreLead produced), whatever order the classifier
\* calls of a batch completed in.
C1_ResultsInInputOrder ==
  returned.state = "fulfilled" =>
    /\ Len(returned.value[1]) = Len(leads)
    /\ \A n \in 1..Len(leads) :
         /\ returned.value[1][n] = resultFor(leads[n], scoring[n])
         /\ \A f \in DOMAIN leads[n] : returned.value[1][n][f] = leads[n][f]

\* C1 witness: a batch of two different prospects whose classifier calls
\* completed in reverse order, and the run has resolved.
C1_Witness ==
  /\ returned.state = "fulfilled"
  /\ config.useAI /\ config.batchSize = 2
  /\ Len(leads) = 2 /\ leads[1] # leads[2]
  /\ settleOrder = << 2, 1 >>

\* C2: analyzeIntent never rejects: after maxRetries failed attempts it
\* resolves with the client's fallback analysis.
C2_AnalyzeIntentNeverRejects ==
  \A k \in DOMAIN calls : calls[k].pc # "rejected"

\* C3: every ScoredLead produced satisfies score = total_rule_score +
\* ai_analysis.score with 0 <= total_rule_score <= 50 and 0 <= score <= 100.
C3_ScoreIsSum ==
  \A r \in producedLeads :
    /\ r.score = r.rule_breakdown.total_rule_score + r.ai_analysis.score
    /\ r.rule_breakdown.total_rule_score \in 0..50
    /\ r.score \in 0..100

\* C3 witness: the run has produced a lead at the top of the range (50 + 50),
\* and one whose label was reconciled away from the classifier's.
C3_Witness ==
  /\ \E r \in producedLeads : r.score = 100
  /\ \E r \in producedLeads : r.intent # r.ai_analysis.intent /\ r.score = 50

C5_Reconciliation ==
  output # << >> =>
    /\ output[1] = IF input[1].aiIntent = "High" /\ input[1].ruleScore < 10 THEN "Medium"
                   ELSE IF input[1].aiIntent = "Low" /\ input[1].ruleScore >= 40 THEN "Medium"
                   ELSE input[1].aiIntent
    /\ input[1].aiIntent = "Medium" => output[1] = "Medium"
    /\ ~(input[1].aiIntent = "High" /\ output[1] = "Low")
    /\ ~(input[1].aiIntent = "Low" /\ output[1] = "High")

\* C5 witness: a Low verdict met a rule score of exactly 40 and came out Medium.
C5_Witness ==
  /\ output = << "Medium" >>
  /\ input[1].aiIntent = "Low"
  /\ input[1].ruleScore = 40

\* C6: scoreLeads never rejects; in strict mode every lead whose scoring
\* failed is, at its input position, a placeholder (score 0, intent Low,
\* reasoning carrying the error message, the lead's own fields), and every
\* other lead of the run is the result of its own scoring.
C6_FailuresBecomePlaceholders ==
  /\ returned.state # "rejected"
  /\ (returned.state = "fulfilled" /\ ~config.continueOnAIFailure) =>
       /\ Len(returned.value[1]) = Len(leads)
       /\ \A n \in 1..Len(leads) :
            IF scoring[n].state = "rejected"
              THEN /\ returned.value[1][n].score = 0
                   /\ returned.value[1][n].intent = "Low"
                   /\ includes(returned.value[1][n].reasoning, scoring[n].error[1].message)
                   /\ \A f \in DOMAIN leads[n] : returned.value[1][n][f] = leads[n][f]
              ELSE /\ scoring[n].state = "fulfilled"
                   /\ returned.value[1][n] = scoring[n].value[1]

\* C6 witness: strict mode, one lead per batch; the first lead's classifier
\* call failed, the second lead, in a later batch, was scored by the classifier.
C6_Witness ==
  /\ returned.state = "fulfilled"
  /\ config.useAI /\ ~config.continueOnAIFailure /\ config.batchSize = 1
  /\ Len(leads) = 2
  /\ scoring[1].state = "rejected"
  /\ scoring[2].state = "fulfilled"
  /\ returned.value[1][2].score > 0

\* C7: with useAI on and continueOnAIFailure off, when the classifier call of
\* a lead fails while scoreLead awaits it, scoreLead rejects with that call's
\* own error and carries no ScoredLead.
C7_StrictModePropagates ==
  [][(config.useAI /\ ~config.continueOnAIFailure) =>
       \A k \in DOMAIN calls :
         (calls[k].pc = "request" /\ calls'[k].pc = "rejected"
            /\ scoring[k].state = "pending")
           => /\ scoring'[k].state = "rejected"
              /\ scoring'[k].error = << ExternalServiceError >>
              /\ scoring'[k].value = << >>]_vars

\* C7 witness: strict mode, a classifier call has failed for good and the
\* lead's scoreLead is rejected with the call's error.
C7_Witness ==
  /\ config.useAI /\ ~config.continueOnAIFailure
  /\ \E k \in DOMAIN calls :
       /\ calls[k].pc = "rejected"
       /\ scoring[k] = Rejected(ExternalServiceError)

\* Lead k's scoreLead settles in this step.
settlesNow(k) == scoring[k].state = "pending" /\ scoring'[k].state # "pending"

\* The classifier call of lead k resolves in this step.
resolvesNow(k) == calls[k].pc = "request" /\ calls'[k].pc = "resolved"

\* C8: with useAI on and continueOnAIFailure on, a scoreLead that settles on
\* a failed classifier call (the call rejected, or the aiTimeout fired)
\* resolves with the rule-based fallback analysis, confidence 0.3, and a
\* positive score; aiFailures grows by exactly one and aiSuccesses stays; no
\* other lead's scoring changes, and a lead whose call resolves keeps the
\* classifier's own analysis and counts as one AI success.
C8_ContinueModeDegradesOneLead ==
  [][(config.useAI /\ config.continueOnAIFailure) =>
       \A k \in DOMAIN scoring :
         settlesNow(k) =>
           /\ \A m \in DOMAIN scoring \ {k} : scoring'[m] = scoring[m]
           /\ scoring'[k].state = "fulfilled"
           /\ IF resolvesNow(k)
                THEN /\ \E text \in Responses :
                          scoring'[k].value[1].ai_analysis = analyses(leads[k], offer, text)
                     /\ stats'.aiSuccesses = stats.aiSuccesses + 1
                     /\ stats'.aiFailures = stats.aiFailures
                ELSE /\ scoring'[k].value[1].ai_analysis = getFallbackAIAnalysis(leads[k], offer)
                     /\ scoring'[k].value[1].ai_analysis.confidence = 3
                     /\ scoring'[k].value[1].score > 0
                     /\ stats'.aiFailures = stats.aiFailures + 1
                     /\ stats'.aiSuccesses = stats.aiSuccesses]_vars

\* C8 witness: a finished batch of two in continue mode; the first lead's call
\* failed and it carries the fallback analysis, the second keeps the
\* classifier's analysis.
C8_Witness ==
  /\ config.useAI /\ config.continueOnAIFailure /\ config.batchSize = 2
  /\ returned.state = "fulfilled" /\ Len(leads) = 2
  /\ calls[1].pc = "rejected" /\ calls[2].pc = "resolved"
  /\ stats.aiFailures = 1 /\ stats.aiSuccesses = 1
  /\ returned.value[1][1].ai_analysis.confidence = 3
  /\ returned.value[1][2].ai_analysis.confidence > 3

\* C9: whenever the orchestrator substituted its fallback analysis (useAI off,
\* or the classifier failed in continue mode), ai_analysis.reasoning contains
\* the marker 'fallback'.
C9_FallbackIsMarked ==
  \A k \in DOMAIN scoring :
    (/\ scoring[k].state = "fulfilled"
     /\ \/ ~config.useAI
        \/ config.continueOnAIFailure /\ calls[k].pc = "rejected")
      => includes(scoring[k].value[1].ai_analysis.reasoning, "fallback")

\* C10: once scoreLeads has completed, successfulScores + failedScores =
\* totalLeads, and failedScores is the number of leads whose scoring threw and
\* were replaced by a placeholder.
C10_FailuresAreCounted ==
  returned.state = "fulfilled" =>
    /\ stats.successfulScores + stats.failedScores = stats.totalLeads
    /\ stats.failedScores = Cardinality({k \in DOMAIN scoring : scoring[k].state = "rejected"})

(***************************************************************************)
(* Properties of analyzeIntent and its retry loop (ClientSpec).            *)
(***************************************************************************)
\* The remote outcome is a text with something other than white space in it.
answersWithText(outcome) == outcome.kind = "text" /\ outcome.text \notin {"", "  \n"}

\* C11: one analyzeIntent call invokes the remote model at most maxRetries
\* times: every attempt before the last one made failed (an empty or blank
\* text counting as a failure), the loop stops at the first attempt that
\* returns non-empty text, and it makes exactly maxRetries attempts when all
\* of them fail.
C11_AtMostMaxRetriesAttempts ==
  output # << >> =>
    /\ output[1].attempts \in 1..maxRetries
    /\ \A n \in 1..(output[1].attempts - 1) : ~answersWithText(input[1].outcomes[n])
    /\ output[1].attempts < maxRetries => answersWithText(input[1].outcomes[output[1].attempts])
    /\ (\A n \in 1..maxRetries : ~answersWithText(input[1].outcomes[n]))
         => output[1].attempts = maxRetries

\* C11 witness: a blank answer, then a rejected request, then a usable text:
\* three requests were made and the call resolved.
C11_Witness ==
  /\ output # << >>
  /\ input[1].outcomes[1] = [kind |-> "text", text |-> "  \n"]
  /\ input[1].outcomes[2].kind = "error"
  /\ answersWithText(input[1].outcomes[3])
  /\ output[1].attempts = 3
  /\ output[1].result.state = "fulfilled"

\* C12: after failed attempt k < maxRetries the loop waits
\* retryDelay * 2^(k-1) ms (1000, 2000, ...) before attempt k+1, and it waits
\* nothing after the last attempt it makes.
C12_ExponentialBackoff ==
  output # << >> =>
    /\ Len(output[1].delays) = output[1].attempts - 1
    /\ \A n \in 1..Len(output[1].delays) : output[1].delays[n] = 1000 * 2 ^ (n - 1)

\* C12 witness: every attempt failed; the loop slept 1000 ms and 2000 ms and
\* reported exhaustion right after the third failure.
C12_Witness ==
  /\ output # << >>
  /\ output[1].result.state = "rejected"
  /\ output[1].attempts = 3
  /\ output[1].delays = << 1000, 2000 >>

\* C13: when an attempt returns non-empty text that cannot be parsed into an
\* intent level, analyzeIntent makes no further remote call (exactly one call
\* when it was the first attempt) and resolves with the client's fallback
\* analysis instead of rejecting.
C13_UnparsedTextIsSoftFailure ==
  output # << >> =>
    \A n \in 1..maxRetries :
      (/\ \A m \in 1..(n - 1) : ~answersWithText(input[1].outcomes[m])
       /\ input[1].outcomes[n] =
            [kind |-> "text",
             text |-> "This is a completely unstructured response without intent classification."])
        => /\ output[1].attempts = n
           /\ output[1].result = Fulfilled(getFallbackAnalysis(input[1].lead, input[1].offer))

\* C13 witness: the first attempt returned the unstructured text, later
\* attempts would have failed; one request was made and the call resolved.
C13_Witness ==
  /\ output # << >>
  /\ input[1].outcomes[1].text
       = "This is a completely unstructured response without intent classification."
  /\ input[1].outcomes[2].kind = "error"
  /\ output[1].attempts = 1
  /\ output[1].result.state = "fulfilled"
  /\ output[1].result.value[1].confidence = 3

\* C14: when the response text holds no 'Intent:' line and no intent keyword,
\* analyzeIntent resolves with intent Low and score 10, whatever the prospect.
C14_UnparsedTextGivesLow ==
  (/\ output # << >>
   /\ input[1].outcomes[1] =
        [kind |-> "text",
         text |-> "This is a completely unstructured response without intent classification."])
    => /\ output[1].result.state = "fulfilled"
       /\ output[1].result.value[1].intent = "Low"
       /\ output[1].result.value[1].score = 10

(***************************************************************************)
(* Properties of the rule engine (RuleSpec).                               *)
(***************************************************************************)
\* C15: calculateRuleScore returns role_score in {0,10,20}, industry_score in
\* {0,10,20}, completeness_score in {0,10} and total_rule_score equal to
\* their sum, hence between 0 and 50.
C15_BreakdownDecomposes ==
  output # << >> =>
    /\ output[1].role_score \in {0, 10, 20}
    /\ output[1].industry_score \in {0, 10, 20}
    /\ output[1].completeness_score \in {0, 10}
    /\ output[1].total_rule_score
         = output[1].role_score + output[1].industry_score + output[1].completeness_score
    /\ output[1].total_rule_score \in 0..50

\* C15 witness: a complete influencer prospect of an adjacent industry scored
\* 10 + 10 + 10.
C15_Witness ==
  /\ output # << >>
  /\ input[1].lead \in RuleProspects
  /\ output[1] = [role_score |-> 10, industry_score |-> 10, completeness_score |-> 10,
                  total_rule_score |-> 30]

\* C16: calculateRuleScore never throws, and a null or non-object prospect or
\* offer yields the all-zero breakdown.
C16_InvalidInputScoresZero ==
  (/\ output # << >>
   /\ input[1].lead \in NonObjects \/ input[1].offer \in NonObjects)
    => output[1] = [role_score |-> 0, industry_score |-> 0, completeness_score |-> 0,
                    total_rule_score |-> 0]

\* C18: evaluateRoleRelevance returns 0 for the roles 'Software Engineer',
\* 'Marketing Coordinator', 'Sales Representative', 'Junior Developer' and
\* 'Intern', which are neither decision-maker nor influencer titles.
C18_StandardRolesScoreZero ==
  (/\ output # << >>
   /\ input[1].lead \in RuleProspects
   /\ input[1].offer \in Offers
   /\ input[1].lead.role \in {"Software Engineer", "Marketing Coordinator",
                              "Sales Representative", "Junior Developer", "Intern"})
    => output[1].role_score = 0

(***************************************************************************)
(* Further properties of the scoring run (Spec).                           *)
(***************************************************************************)
\* C17: with useAI off the remote classifier is never invoked for any lead,
\* every result carries the rule-based fallback analysis (confidence 0.3),
\* and aiSuccesses and aiFailures both stay 0.
C17_DisabledAISkipsClassifier ==
  ~config.useAI =>
    /\ \A k \in DOMAIN calls : calls[k] = NoCall
    /\ stats.aiSuccesses = 0 /\ stats.aiFailures = 0
    /\ \A k \in DOMAIN scoring :
         /\ scoring[k].state \in {"idle", "fulfilled"}
         /\ scoring[k].state = "fulfilled" =>
              /\ scoring[k].value[1].ai_analysis = getFallbackAIAnalysis(leads[k], offer)
              /\ scoring[k].value[1].ai_analysis.confidence = 3
    /\ returned.state = "fulfilled" =>
         \A n \in 1..Len(leads) : returned.value[1][n] = scoring[n].value[1]

\* C17 witness: a finished run over two leads, one per batch, with useAI off.
C17_Witness ==
  /\ ~config.useAI /\ config.batchSize = 1
  /\ returned.state = "fulfilled"
  /\ Len(returned.value[1]) = 2
  /\ returned.value[1][2].ai_analysis.confidence = 3

(***************************************************************************)
(* Properties of the store and its handlers (StoreSpec).                   *)
(***************************************************************************)
\* C19: replacing the stored offer invalidates the stored scored results: a
\* setOffer that follows a completed scoring run and changes the offer leaves
\* getScoredResults with no result of that run.
C19_NewOfferInvalidatesResults ==
  [][(/\ scoreRequest.state = "done"
      /\ scoreRequest' = scoreRequest
      /\ store'.offer # store.offer)
       => Len(getScoredResults(store')) = 0]_vars

\* The scores of the leads in arr, in order.
scoresOf(arr) == [n \in 1..Len(arr) |-> arr[n].score]

\* C20: GET /results?limit=k returns the k highest-scoring leads among those
\* passing the other filters, sorted by score descending.
C20_LimitReturnsTopK ==
  (output # << >> /\ input[1].limit = "1") =>
    scoresOf(output[1])
      = scoresOf(SubSeq(sortByScore(byMaxScore(byMinScore(byIntent(getScoredResults(store),
                                                                     input[1]), input[1]), input[1])),
                        1, Min(1, Len(byMaxScore(byMinScore(byIntent(getScoredResults(store),
                                                                     input[1]), input[1]), input[1])))))

(***************************************************************************)
(* Properties of the HTTP handlers (StoreSpec).                            *)
(***************************************************************************)
\* C21: POST /score requires a stored offer and at least one stored lead: a
\* request arriving when the offer is missing is answered 422 NO_OFFER_DATA,
\* one arriving when no leads are stored is answered 422 NO_LEADS_DATA, and
\* in both cases no scoring run is started (so no classifier call is made)
\* and the stored offer, leads and scored results are left unchanged.
C21_ScoreRequiresOfferAndLeads ==
  [][(scoreRequest.state # "running" /\ scoreRequest' # scoreRequest) =>
       IF store.offer = << >>
         THEN /\ scoreRequest'.status = 422 /\ scoreRequest'.code = "NO_OFFER_DATA"
              /\ scoreRequest'.state = "rejected" /\ store' = store /\ calls' = calls
       ELSE IF Len(store.leads) = 0
         THEN /\ scoreRequest'.status = 422 /\ scoreRequest'.code = "NO_LEADS_DATA"
              /\ scoreRequest'.state = "rejected" /\ store' = store /\ calls' = calls
       ELSE scoreRequest'.state = "running"]_vars

\* C21 witness: a POST /score that found leads but no offer was answered 422
\* NO_OFFER_DATA.
C21_Witness ==
  /\ scoreRequest.state = "rejected"
  /\ scoreRequest.code = "NO_OFFER_DATA"
  /\ Len(store.leads) > 0
  /\ store.offer = << >>

(***************************************************************************)
(* Further properties of scoreLead and of the scoring run (Spec).          *)
(***************************************************************************)
\* C22: when the classifier returns High for the lead whose role and industry
\* match nothing in the offer but whose six fields are all filled (role
\* Intern, industry Agriculture), the final intent of its ScoredLead is
\* Medium.
C22_UnmatchedLeadIsDowngraded ==
  \A k \in DOMAIN scoring :
    (/\ scoring[k].state = "fulfilled"
     /\ leads[k].name = "Low Score Lead"
     /\ scoring[k].value[1].ai_analysis.intent = "High")
      => scoring[k].value[1].intent = "Medium"

\* C23: malformed input is absorbed, not raised: scoreLead called with a null
\* prospect or a null offer and a classifier answering Low/10 resolves with a
\* ScoredLead whose rule breakdown is all zero and whose score is 10.
C23_MalformedInputIsAbsorbed ==
  (/\ output # << >>
   /\ input[1].lead = JsNull \/ input[1].offer = JsNull
   /\ config.useAI
   /\ input[1].race.state = "fulfilled"
   /\ input[1].race.value[1].intent = "Low")
    => /\ output[1].state = "fulfilled"
       /\ output[1].value[1].rule_breakdown = zeroBreakdown
       /\ output[1].value[1].score = 10

\* The analyzeIntent calls whose remote request is in flight.
requestsInFlight == {k \in DOMAIN calls : calls[k].pc = "request"}

\* C24: at every moment of a scoreLeads run at most batchSize remote
\* classifier requests are in flight, also when a lead's classifier call was
\* abandoned by aiTimeout while the client's retry loop for it still runs.
C24_AtMostBatchSizeInFlight ==
  Cardinality(requestsInFlight) <= config.batchSize

\* The number of the batch lead k belongs to, counted from 0.
batchOf(k) == (k - 1) \div config.batchSize

\* scoreLead has been called for lead k.
started(k) == scoring[k].state # "idle"

\* C25: batches run strictly one after another: no lead of a later batch
\* starts scoring before every lead of the batches before has produced its
\* result, the leads of one batch start together (no pause between them), the
\* run pauses exactly in between two batches (the batch at offset i has
\* settled and leads remain), and a batch other than the first starts only
\* out of the pause.
C25_BatchesRunInSequence ==
  /\ [](\A k \in DOMAIN scoring : started(k) =>
          /\ \A j \in DOMAIN scoring :
               batchOf(j) < batchOf(k) =>
                 batchPromises[j].state = "fulfilled" /\ j <= Len(results)
          /\ \A j \in DOMAIN scoring : batchOf(j) = batchOf(k) => started(j))
  /\ [](pc = "pause" =>
          /\ i + config.batchSize < Len(leads)
          /\ Len(results) = i + config.batchSize)
  /\ [][\A k \in DOMAIN scoring' :
          (k \in DOMAIN scoring /\ ~started(k) /\ started(k)')
            => pc = "pause" /\ k > i + config.batchSize]_vars
  /\ [][(pc = "running" /\ pc' # "running") =>
          pc' = IF i + config.batchSize < Len(leads) THEN "pause" ELSE "done"]_vars

\* C25 witness: the second of two batches is running after the pause, the
\* first batch's results pushed.
C25_Witness ==
  /\ pc = "running"
  /\ config.batchSize = 1
  /\ Len(leads) = 2
  /\ i = 1
  /\ Len(results) = 1
  /\ scoring[2].state = "pending"

\* The run has reached Completed: endTime is set and scoreLeads has resolved
\* with one result for every lead.
Completed ==
  /\ pc = "done"
  /\ stats.endTime = TRUE
  /\ returned.state = "fulfilled"
  /\ Len(returned.value[1]) = Len(leads)

\* C26: every scoreLeads run terminates: once scoreLeads is called, whatever
\* the classifier does (it may never answer), the run eventually reaches
\* Completed, each lead's classifier call being cut off by the timeout.
C26_EveryRunTerminates == (pc # "idle") ~> Completed

\* C26 witness: a run of two batches has completed although the remote model
\* never answered any request.
C26_Witness ==
  /\ Completed
  /\ config.useAI
  /\ Len(leads) = 2
  /\ config.batchSize = 1
  /\ \A k \in DOMAIN calls : calls[k] = [pc |-> "request", attempt |-> 1]

(***************************************************************************)
(* Properties of scoreLead called on its own (ScoreLeadSpec).              *)
(***************************************************************************)
\* C27: the fallback analysis the orchestrator applies on a hard classifier
\* failure gives, for every prospect and offer, the same intent as the
\* client's two-boolean heuristic (High when the role is a decision maker and
\* the industry substring-matches a use case, Medium when exactly one holds,
\* Low when neither holds).
C27_FallbacksAgree ==
  (/\ output # << >>
   /\ config.useAI /\ config.continueOnAIFailure
   /\ input[1].race.state = "rejected"
   /\ input[1].lead # JsNull /\ input[1].offer # JsNull)
    => /\ output[1].state = "fulfilled"
       /\ output[1].value[1].ai_analysis.intent
            = getFallbackAnalysis(input[1].lead, input[1].offer).intent

\* C28: reconciliation changes only the top-level intent label: when the
\* final intent differs from the AI intent, ai_analysis is the analysis the
\* classifier gave, untouched, and the numeric score is the rule score plus
\* that analysis's own score (AI High/50 with rule score 0 gives label Medium
\* and score 50, not 30).
C28_ReconciliationChangesLabelOnly ==
  (/\ output # << >>
   /\ output[1].state = "fulfilled"
   /\ output[1].value[1].intent # output[1].value[1].ai_analysis.intent)
    => /\ config.useAI
       /\ input[1].race.state = "fulfilled"
       /\ output[1].value[1].ai_analysis = input[1].race.value[1]
       /\ output[1].value[1].score
            = output[1].value[1].rule_breakdown.total_rule_score
                + getAIScoreForIntent(input[1].race.value[1].intent)
       /\ output[1].value[1].rule_breakdown
            = ruleScores(input[1].lead, input[1].offer)

\* C28 witness: the classifier said High/50 for a lead with rule score 0: the
\* label is Medium and the score 50.
C28_Witness ==
  /\ output # << >>
  /\ output[1].state = "fulfilled"
  /\ output[1].value[1].ai_analysis.intent = "High"
  /\ output[1].value[1].rule_breakdown.total_rule_score = 0
  /\ output[1].value[1].intent = "Medium"
  /\ output[1].value[1].score = 50

\* C30: in every reachable state of the store, under any interleaving of
\* uploads, offers and scoring requests, the stored scored results are either
\* empty or the scoring of exactly the currently stored leads: a run that
\* started before an upload never stores results for leads that have since
\* been replaced.
C30_ResultsBelongToStoredLeads ==
  \/ Len(getScoredResults(store)) = 0
  \/ /\ Len(getScoredResults(store)) = Len(store.leads)
     /\ \A n \in 1..Len(store.leads) :
          \A f \in DOMAIN store.leads[n] :
            getScoredResults(store)[n][f] = store.leads[n][f]

(***************************************************************************)
(* Properties of the rate limiter (LimiterSpec).                           *)
(***************************************************************************)
\* C29: the rate limiter on POST /score lets at most maxRequests (5)
\* requests of one client reach the scoring handler in any 10-minute period:
\* of the requests of a client that reached the handler, any two that have
\* maxRequests - 1 others in between are at least windowMs apart.
C29_AtMostFivePerTenMinutes ==
  \A c \in Clients :
    \A n \in 1..(Len(limiter.passed[c]) - maxRequests) :
      limiter.passed[c][n + maxRequests] - limiter.passed[c][n] >= windowMs

====
